---- MODULE Spec2Model ----
(***************************************************************************)
(* Model of the AML transaction monitor of cryptobeam-compliance           *)
(* (src/python/aml/transaction_monitor.py, class TransactionMonitor) and   *)
(* of the risk assessment of its KYC engine                                *)
(* (src/python/kyc/risk_assessment.py, class KYCRiskEngine).               *)
(*                                                                         *)
(* Conventions.                                                            *)
(*  - Amounts are whole currency units (naturals); timestamps are whole    *)
(*    hours since an arbitrary origin, so timedelta(hours=24) is 24.       *)
(*  - A Python list is a sequence; the dict transaction_history is a       *)
(*    function whose DOMAIN is the set of keys present.                    *)
(*  - Optional[AMLAlert] is a sequence of length 0 (None) or 1.            *)
(*  - Optional[str] is a record [some, str]; a str is a sequence of        *)
(*    one-character strings, so that str.upper() is computed.              *)
(*  - An AMLAlert keeps alert_type, severity, transaction_ids, user_id and *)
(*    metadata.  alert_id (a fresh uuid4), created_at (the wall clock) and *)
(*    description (a text rendering of the other fields) are not kept.     *)
(*  - A metadata dict is the set of its <<key, value>> items.              *)
(*  - A Transaction keeps the fields the rules read: transaction_id,       *)
(*    user_id, amount, transaction_type, timestamp and jurisdiction.       *)
(*    currency is read only to render the description; counterparty and    *)
(*    blockchain_address are never read.                                   *)
(***************************************************************************)
EXTENDS Integers, Sequences, FiniteSets, TLC

VARIABLES
    transaction_history,   \* self.transaction_history : user_id -> list of Transaction
    alerts,                \* self.alerts : list of AMLAlert (the alert sink)
    last_call,             \* the public method called last, with its argument
    returned,              \* the list the last call returned
    calls,                 \* thread -> its monitor_transaction call in progress
    results,               \* thread -> the calls it completed, with what they returned
    lock,                  \* the accounts whose account-scoped lock is held
    serialized,            \* calls for one account run under the account's lock
    assessments,           \* KYCRiskEngine.assessments : customer_id -> RiskAssessment
    last_assessed          \* the Customer assessed last and the RiskAssessment returned

vars == <<transaction_history, alerts, last_call, returned,
          calls, results, lock, serialized, assessments, last_assessed>>

\* the state of concurrent callers, and the state of the KYC risk engine
thread_vars == <<calls, results, lock, serialized>>
kyc_vars == <<assessments, last_assessed>>

----------------------------------------------------------------------------
(* Thresholds: class attributes of TransactionMonitor.                     *)

CTR_THRESHOLD == 10000
STRUCTURING_THRESHOLD == 10000
STRUCTURING_WINDOW_HOURS == 24
MAX_TRANSACTIONS_PER_DAY == 50
MAX_VOLUME_PER_DAY == 100000

\* timedelta(hours=24) in _check_velocity
VELOCITY_WINDOW_HOURS == 24
\* recent_txns[-10:]
VELOCITY_REFERENCED == 10
\* the round-amount rule: timedelta(hours=24), amount >= 1000, amount % 1000,
\* amount % 500, len(recent_round_txns) >= 3
ROUND_WINDOW_HOURS == 24
ROUND_MIN_AMOUNT == 1000
ROUND_MODULUS == 1000
ROUND_HALF_MODULUS == 500
ROUND_MIN_COUNT == 3
\* the structuring rule: len(recent_txns) < 3
STRUCTURING_MIN_COUNT == 3

----------------------------------------------------------------------------
(* Strings and Optional[str].                                              *)

None == [some |-> FALSE, str |-> <<>>]
Some(s) == [some |-> TRUE, str |-> s]

LowerCase == <<"a","b","c","d","e","f","g","h","i","j","k","l","m",
               "n","o","p","q","r","s","t","u","v","w","x","y","z">>
UpperCase == <<"A","B","C","D","E","F","G","H","I","J","K","L","M",
               "N","O","P","Q","R","S","T","U","V","W","X","Y","Z">>

\* str.upper() on one character: a lower-case letter becomes its capital,
\* every other character is kept.
UpperChar(c) ==
    IF \E i \in 1..Len(LowerCase) : LowerCase[i] = c
    THEN UpperCase[CHOOSE i \in 1..Len(LowerCase) : LowerCase[i] = c]
    ELSE c

\* str.upper()
Upper(s) == [i \in 1..Len(s) |-> UpperChar(s[i])]

\* high_risk_jurisdictions in _check_jurisdiction
high_risk_jurisdictions ==
    { <<"I","R","A","N">>,
      <<"N","O","R","T","H"," ","K","O","R","E","A">>,
      <<"S","Y","R","I","A">>,
      <<"M","Y","A","N","M","A","R">> }

----------------------------------------------------------------------------
(* List helpers.                                                           *)

\* sum(txn.amount for txn in txns)
RECURSIVE SumAmounts(_)
SumAmounts(txns) ==
    IF txns = <<>> THEN 0 ELSE txns[1].amount + SumAmounts(Tail(txns))

\* [txn.transaction_id for txn in txns]
TransactionIds(txns) == [i \in 1..Len(txns) |-> txns[i].transaction_id]

\* LastN with the slice written txns[:n]
LastN_first(txns, n) ==
    IF Len(txns) <= n THEN txns ELSE SubSeq(txns, 1, n)

\* LastN with the slice written txns[n:]
LastN_from_n(txns, n) ==
    IF Len(txns) <= n THEN <<>> ELSE SubSeq(txns, n + 1, Len(txns))

\* txns[-n:]
LastN(txns, n) ==
    IF Len(txns) <= n THEN txns ELSE SubSeq(txns, Len(txns) - n + 1, Len(txns))

\* self.transaction_history.get(user_id, [])
user_txns(history, user_id) ==
    IF user_id \in DOMAIN history THEN history[user_id] ELSE <<>>

----------------------------------------------------------------------------
(* _create_alert                                                           *)

_create_alert(alert_type, severity, transaction_ids, user_id, metadata) ==
    [ alert_type      |-> alert_type,
      severity        |-> severity,
      transaction_ids |-> transaction_ids,
      user_id         |-> user_id,
      metadata        |-> metadata ]

----------------------------------------------------------------------------
(* The rules.  Each takes the history as already updated with the          *)
(* transaction and returns Optional[AMLAlert].                             *)

\* _check_large with the comparison written amount > CTR_THRESHOLD
_check_large_strict(transaction) ==
    IF transaction.amount > CTR_THRESHOLD
    THEN << _create_alert("large_transaction", "high",
                          <<transaction.transaction_id>>,
                          transaction.user_id, {}) >>
    ELSE <<>>

\* monitor_transaction, lines 95-103: the large transaction check
_check_large(transaction) ==
    IF transaction.amount >= CTR_THRESHOLD
    THEN << _create_alert("large_transaction", "high",
                          <<transaction.transaction_id>>,
                          transaction.user_id, {}) >>
    ELSE <<>>

\* structuring_recent_txns without the transaction_type condition
structuring_recent_txns_any_type(history, transaction) ==
    LET cutoff_time == transaction.timestamp - STRUCTURING_WINDOW_HOURS
        InWindow(txn) == txn.timestamp >= cutoff_time
    IN  SelectSeq(user_txns(history, transaction.user_id), InWindow)

\* recent_txns of _check_structuring
structuring_recent_txns(history, transaction) ==
    LET cutoff_time == transaction.timestamp - STRUCTURING_WINDOW_HOURS
        InWindow(txn) == txn.timestamp >= cutoff_time
                         /\ txn.transaction_type = transaction.transaction_type
    IN  SelectSeq(user_txns(history, transaction.user_id), InWindow)

\* _check_structuring without the all_below_threshold condition
_check_structuring_no_ceiling(history, transaction) ==
    LET recent_txns == SelectSeq(user_txns(history, transaction.user_id),
                                 LAMBDA txn :
                                    /\ txn.timestamp >=
                                         transaction.timestamp - STRUCTURING_WINDOW_HOURS
                                    /\ txn.transaction_type = transaction.transaction_type)
        total_amount == SumAmounts(recent_txns)
    IN  IF Len(recent_txns) >= STRUCTURING_MIN_COUNT
           /\ total_amount >= STRUCTURING_THRESHOLD
        THEN << _create_alert("structuring", "critical",
                              TransactionIds(recent_txns),
                              transaction.user_id,
                              { <<"total_amount", total_amount>>,
                                <<"transaction_count", Len(recent_txns)>> }) >>
        ELSE <<>>

\* _check_structuring with all_below_threshold taken over the window without
\* the transaction being monitored
_check_structuring_ceiling_on_earlier(history, transaction) ==
    LET recent_txns == structuring_recent_txns(history, transaction)
        total_amount == SumAmounts(recent_txns)
        all_below_threshold ==
            \A i \in 1..Len(recent_txns) :
                \/ recent_txns[i] = transaction
                \/ recent_txns[i].amount < CTR_THRESHOLD
    IN  IF Len(recent_txns) < STRUCTURING_MIN_COUNT THEN <<>>
        ELSE IF total_amount >= STRUCTURING_THRESHOLD
                /\ all_below_threshold
                /\ Len(recent_txns) >= STRUCTURING_MIN_COUNT
        THEN << _create_alert("structuring", "critical",
                              TransactionIds(recent_txns),
                              transaction.user_id,
                              { <<"total_amount", total_amount>>,
                                <<"transaction_count", Len(recent_txns)>> }) >>
        ELSE <<>>

_check_structuring(history, transaction) ==
    LET recent_txns == structuring_recent_txns(history, transaction)
        total_amount == SumAmounts(recent_txns)
        all_below_threshold ==
            \A i \in 1..Len(recent_txns) : recent_txns[i].amount < CTR_THRESHOLD
    IN  IF Len(recent_txns) < STRUCTURING_MIN_COUNT THEN <<>>
        ELSE IF total_amount >= STRUCTURING_THRESHOLD
                /\ all_below_threshold
                /\ Len(recent_txns) >= STRUCTURING_MIN_COUNT
        THEN << _create_alert("structuring", "critical",
                              TransactionIds(recent_txns),
                              transaction.user_id,
                              { <<"total_amount", total_amount>>,
                                <<"transaction_count", Len(recent_txns)>> }) >>
        ELSE <<>>

\* the transactions of txns in timestamp order, equal timestamps in insertion order
RECURSIVE by_timestamp(_)
by_timestamp(txns) ==
    IF txns = <<>> THEN <<>>
    ELSE LET earliest == CHOOSE ts \in { txns[i].timestamp : i \in 1..Len(txns) } :
                            \A i \in 1..Len(txns) : ts <= txns[i].timestamp
             Earliest(txn) == txn.timestamp = earliest
             Later(txn) == txn.timestamp # earliest
         IN  SelectSeq(txns, Earliest) \o by_timestamp(SelectSeq(txns, Later))

\* velocity_recent_txns with the window sorted by timestamp
velocity_recent_txns_by_timestamp(history, transaction) ==
    LET cutoff_time == transaction.timestamp - VELOCITY_WINDOW_HOURS
        InWindow(txn) == txn.timestamp >= cutoff_time
    IN  by_timestamp(SelectSeq(user_txns(history, transaction.user_id), InWindow))

\* recent_txns of _check_velocity
\* velocity_recent_txns over the transactions of all accounts
velocity_recent_txns_all_accounts(history, transaction) ==
    LET cutoff_time == transaction.timestamp - VELOCITY_WINDOW_HOURS
        InWindow(txn) == txn.timestamp >= cutoff_time
        RECURSIVE AllTxns(_)
        AllTxns(users) ==
            IF users = {} THEN <<>>
            ELSE LET u == CHOOSE x \in users : TRUE
                 IN  history[u] \o AllTxns(users \ {u})
    IN  SelectSeq(AllTxns(DOMAIN history), InWindow)

velocity_recent_txns(history, transaction) ==
    LET cutoff_time == transaction.timestamp - VELOCITY_WINDOW_HOURS
        InWindow(txn) == txn.timestamp >= cutoff_time
    IN  SelectSeq(user_txns(history, transaction.user_id), InWindow)

\* _check_velocity with the volume check before the count check
_check_velocity_volume_first(history, transaction) ==
    LET recent_txns == SelectSeq(user_txns(history, transaction.user_id),
                                 LAMBDA txn :
                                    txn.timestamp >=
                                        transaction.timestamp - VELOCITY_WINDOW_HOURS)
        total_volume == SumAmounts(recent_txns)
    IN  IF total_volume > MAX_VOLUME_PER_DAY
        THEN << _create_alert("velocity", "high",
                              TransactionIds(LastN(recent_txns, VELOCITY_REFERENCED)),
                              transaction.user_id,
                              { <<"total_volume", total_volume>> }) >>
        ELSE IF Len(recent_txns) > MAX_TRANSACTIONS_PER_DAY
        THEN << _create_alert("velocity", "high",
                              TransactionIds(LastN(recent_txns, VELOCITY_REFERENCED)),
                              transaction.user_id,
                              { <<"transaction_count", Len(recent_txns)>> }) >>
        ELSE <<>>

\* _check_velocity with total_volume >= MAX_VOLUME_PER_DAY
_check_velocity_volume_inclusive(history, transaction) ==
    LET recent_txns == velocity_recent_txns(history, transaction)
        total_volume == SumAmounts(recent_txns)
    IN  IF Len(recent_txns) > MAX_TRANSACTIONS_PER_DAY
        THEN << _create_alert("velocity", "high",
                              TransactionIds(LastN(recent_txns, VELOCITY_REFERENCED)),
                              transaction.user_id,
                              { <<"transaction_count", Len(recent_txns)>> }) >>
        ELSE IF total_volume >= MAX_VOLUME_PER_DAY
        THEN << _create_alert("velocity", "high",
                              TransactionIds(LastN(recent_txns, VELOCITY_REFERENCED)),
                              transaction.user_id,
                              { <<"total_volume", total_volume>> }) >>
        ELSE <<>>

_check_velocity(history, transaction) ==
    LET recent_txns == velocity_recent_txns(history, transaction)
        total_volume == SumAmounts(recent_txns)
    IN  IF Len(recent_txns) > MAX_TRANSACTIONS_PER_DAY
        THEN << _create_alert("velocity", "high",
                              TransactionIds(LastN(recent_txns, VELOCITY_REFERENCED)),
                              transaction.user_id,
                              { <<"transaction_count", Len(recent_txns)>> }) >>
        ELSE IF total_volume > MAX_VOLUME_PER_DAY
        THEN << _create_alert("velocity", "high",
                              TransactionIds(LastN(recent_txns, VELOCITY_REFERENCED)),
                              transaction.user_id,
                              { <<"total_volume", total_volume>> }) >>
        ELSE <<>>

\* recent_round_txns of _check_round_amounts
recent_round_txns(history, transaction) ==
    LET cutoff_time == transaction.timestamp - ROUND_WINDOW_HOURS
        InWindow(txn) == txn.timestamp >= cutoff_time
                         /\ (txn.amount % ROUND_MODULUS = 0
                             \/ txn.amount % ROUND_HALF_MODULUS = 0)
    IN  SelectSeq(user_txns(history, transaction.user_id), InWindow)

_check_round_amounts(history, transaction) ==
    IF transaction.amount >= ROUND_MIN_AMOUNT
       /\ (transaction.amount % ROUND_MODULUS = 0
           \/ transaction.amount % ROUND_HALF_MODULUS = 0)
       /\ Len(recent_round_txns(history, transaction)) >= ROUND_MIN_COUNT
    THEN << _create_alert("round_amount", "medium",
                          TransactionIds(recent_round_txns(history, transaction)),
                          transaction.user_id,
                          { <<"transaction_count",
                              Len(recent_round_txns(history, transaction))>> }) >>
    ELSE <<>>

\* _check_jurisdiction without the call of upper()
_check_jurisdiction_case_sensitive(transaction) ==
    IF transaction.jurisdiction.some
       /\ transaction.jurisdiction.str # <<>>
       /\ transaction.jurisdiction.str \in high_risk_jurisdictions
    THEN << _create_alert("high_risk_jurisdiction", "critical",
                          <<transaction.transaction_id>>,
                          transaction.user_id,
                          { <<"jurisdiction", transaction.jurisdiction>> }) >>
    ELSE <<>>

_check_jurisdiction(transaction) ==
    IF transaction.jurisdiction.some
       /\ transaction.jurisdiction.str # <<>>
       /\ Upper(transaction.jurisdiction.str) \in high_risk_jurisdictions
    THEN << _create_alert("high_risk_jurisdiction", "critical",
                          <<transaction.transaction_id>>,
                          transaction.user_id,
                          { <<"jurisdiction", transaction.jurisdiction>> }) >>
    ELSE <<>>

----------------------------------------------------------------------------
(* monitor_transaction                                                     *)

\* record_transaction with insert(0, transaction) instead of append(transaction)
record_transaction_first(history, transaction) ==
    (transaction.user_id :>
        <<transaction>> \o user_txns(history, transaction.user_id)) @@ history

\* record_transaction that skips a transaction whose transaction_id the
\* account's list already holds
record_transaction_unique(history, transaction) ==
    IF \E k \in 1..Len(user_txns(history, transaction.user_id)) :
          user_txns(history, transaction.user_id)[k].transaction_id
              = transaction.transaction_id
    THEN history
    ELSE (transaction.user_id :>
             Append(user_txns(history, transaction.user_id), transaction)) @@ history

\* lines 90-93: create the list on first use, then append
record_transaction(history, transaction) ==
    (transaction.user_id :>
        Append(user_txns(history, transaction.user_id), transaction)) @@ history

\* generated_alerts with the round-amount check before the velocity check
generated_alerts_round_first(history, transaction) ==
    _check_large(transaction)
    \o _check_structuring(history, transaction)
    \o _check_round_amounts(history, transaction)
    \o _check_velocity(history, transaction)
    \o _check_jurisdiction(transaction)

\* the local list `alerts` of monitor_transaction at its return
generated_alerts(history, transaction) ==
    _check_large(transaction)
    \o _check_structuring(history, transaction)
    \o _check_velocity(history, transaction)
    \o _check_round_amounts(history, transaction)
    \o _check_jurisdiction(transaction)

\* monitor_transaction with self.alerts = alerts instead of self.alerts.extend(alerts)
monitor_transaction_overwrite(transaction) ==
    LET history == record_transaction(transaction_history, transaction)
        new_alerts == generated_alerts(history, transaction)
    IN  /\ transaction_history' = history
        /\ alerts' = new_alerts
        /\ returned' = new_alerts
        /\ last_call' = [op |-> "monitor_transaction", transaction |-> transaction,
                         query |-> ""]
        /\ UNCHANGED <<thread_vars, kyc_vars>>

\* monitor_transaction that drops an alert when the sink already holds an alert of
\* that type for the account sharing a transaction id with it
monitor_transaction_dedup(transaction) ==
    LET history == record_transaction(transaction_history, transaction)
        Known(alert) ==
            \E i \in 1..Len(alerts) :
                /\ alerts[i].alert_type = alert.alert_type
                /\ alerts[i].user_id = alert.user_id
                /\ \E m \in 1..Len(alerts[i].transaction_ids),
                      n \in 1..Len(alert.transaction_ids) :
                        alerts[i].transaction_ids[m] = alert.transaction_ids[n]
        Fresh(alert) == ~Known(alert)
        new_alerts == SelectSeq(generated_alerts(history, transaction), Fresh)
    IN  /\ transaction_history' = history
        /\ alerts' = alerts \o new_alerts
        /\ returned' = new_alerts
        /\ last_call' = [op |-> "monitor_transaction", transaction |-> transaction,
                         query |-> ""]
        /\ UNCHANGED <<thread_vars, kyc_vars>>

monitor_transaction(transaction) ==
    LET history == record_transaction(transaction_history, transaction)
        new_alerts == generated_alerts(history, transaction)
    IN  /\ transaction_history' = history
        /\ alerts' = alerts \o new_alerts
        /\ returned' = new_alerts
        /\ last_call' = [op |-> "monitor_transaction", transaction |-> transaction,
                         query |-> ""]
        /\ UNCHANGED <<thread_vars, kyc_vars>>

----------------------------------------------------------------------------
(* get_alerts_by_user, get_alerts_by_severity                             *)

\* a Transaction that stands for "no argument" in last_call
NoTransaction ==
    [ transaction_id |-> 0, user_id |-> "", amount |-> 0,
      transaction_type |-> "", timestamp |-> 0, jurisdiction |-> None ]

\* get_alerts_by_user listing the account's alerts latest first
get_alerts_by_user_latest_first(user_id) ==
    LET Mine(alert) == alert.user_id = user_id
        mine == SelectSeq(alerts, Mine)
    IN  /\ returned' = [i \in 1..Len(mine) |-> mine[Len(mine) + 1 - i]]
        /\ last_call' = [op |-> "get_alerts_by_user", transaction |-> NoTransaction,
                         query |-> user_id]
        /\ UNCHANGED <<transaction_history, alerts>>
        /\ UNCHANGED <<thread_vars, kyc_vars>>

get_alerts_by_user(user_id) ==
    LET Mine(alert) == alert.user_id = user_id
    IN  /\ returned' = SelectSeq(alerts, Mine)
        /\ last_call' = [op |-> "get_alerts_by_user", transaction |-> NoTransaction,
                         query |-> user_id]
        /\ UNCHANGED <<transaction_history, alerts>>
        /\ UNCHANGED <<thread_vars, kyc_vars>>

\* get_alerts_by_severity that takes the alerts it returns out of the sink
get_alerts_by_severity_draining(severity) ==
    LET Matches(alert) == alert.severity = severity
        Others(alert) == alert.severity # severity
    IN  /\ returned' = SelectSeq(alerts, Matches)
        /\ alerts' = SelectSeq(alerts, Others)
        /\ last_call' = [op |-> "get_alerts_by_severity", transaction |-> NoTransaction,
                         query |-> severity]
        /\ UNCHANGED transaction_history
        /\ UNCHANGED <<thread_vars, kyc_vars>>

get_alerts_by_severity(severity) ==
    LET Matches(alert) == alert.severity = severity
    IN  /\ returned' = SelectSeq(alerts, Matches)
        /\ last_call' = [op |-> "get_alerts_by_severity", transaction |-> NoTransaction,
                         query |-> severity]
        /\ UNCHANGED <<transaction_history, alerts>>
        /\ UNCHANGED <<thread_vars, kyc_vars>>

----------------------------------------------------------------------------
(* monitor_transaction called from several threads.  A call is three       *)
(* steps: the append to the history (lines 90-93), the evaluation of the   *)
(* rules into the local list alerts (lines 95-123), and the extension of   *)
(* the sink with the return (lines 125-126).  Steps of different threads   *)
(* interleave.  The code takes no lock; the account-scoped lock is the     *)
(* one section 5 of the specification requires of a concurrent deployment. *)

Threads == {1, 2}

\* no call in progress
IdleCall == [pc |-> "idle", transaction |-> NoTransaction, alerts |-> <<>>]

\* lines 90-93
monitor_store(self, transaction) ==
    /\ transaction_history' = record_transaction(transaction_history, transaction)
    /\ calls' = [calls EXCEPT ![self] = [pc |-> "stored", transaction |-> transaction,
                                         alerts |-> <<>>]]
    /\ UNCHANGED <<alerts, last_call, returned, results>>

\* lines 95-123
monitor_check(self) ==
    /\ calls' = [calls EXCEPT ![self] =
                    [pc |-> "checked", transaction |-> calls[self].transaction,
                     alerts |-> generated_alerts(transaction_history,
                                                 calls[self].transaction)]]
    /\ UNCHANGED <<transaction_history, alerts, last_call, returned, results>>

\* lines 125-126
monitor_extend(self) ==
    /\ alerts' = alerts \o calls[self].alerts
    /\ returned' = calls[self].alerts
    /\ last_call' = [op |-> "monitor_transaction",
                     transaction |-> calls[self].transaction, query |-> ""]
    /\ results' = [results EXCEPT ![self] =
                      Append(@, [transaction |-> calls[self].transaction,
                                 alerts |-> calls[self].alerts])]
    /\ calls' = [calls EXCEPT ![self] = IdleCall]
    /\ UNCHANGED transaction_history

\* the account-scoped lock taken without a test
may_enter_always(user_id) == TRUE

\* the account-scoped lock: a call for an account waits while another holds the lock
may_enter(user_id) == serialized => user_id \notin lock

acquire(user_id) == lock' = IF serialized THEN lock \cup {user_id} ELSE lock

release(user_id) == lock' = IF serialized THEN lock \ {user_id} ELSE lock

----------------------------------------------------------------------------
(* KYCRiskEngine (src/python/kyc/risk_assessment.py).  A Customer keeps   *)
(* the fields assess_customer_risk reads or writes: customer_id,           *)
(* customer_type, residence_country, occupation, source_of_funds,          *)
(* documents (each KYCDocument reduced to its verified flag), pep_status,  *)
(* adverse_media and risk_level.  A RiskAssessment keeps customer_id,      *)
(* risk_level, risk_score, risk_factors, due_diligence_level and the days  *)
(* from assessment_date to next_review_date; the two dates (the wall       *)
(* clock) and notes (a text rendering of due_diligence_level) are not      *)
(* kept.  A risk factor is its label, with the country or occupation it    *)
(* names where the text names one.                                         *)

HIGH_RISK_COUNTRIES ==
    { <<"I","R","A","N">>,
      <<"N","O","R","T","H"," ","K","O","R","E","A">>,
      <<"S","Y","R","I","A">>,
      <<"M","Y","A","N","M","A","R">>,
      <<"A","F","G","H","A","N","I","S","T","A","N">>,
      <<"S","O","M","A","L","I","A">>,
      <<"Y","E","M","E","N">>,
      <<"L","I","B","Y","A">>,
      <<"I","R","A","Q">> }

HIGH_RISK_OCCUPATIONS ==
    { <<"M","O","N","E","Y","_","S","E","R","V","I","C","E","S","_","B","U","S","I","N","E","S","S">>,
      <<"C","A","S","I","N","O">>,
      <<"G","A","M","B","L","I","N","G">>,
      <<"P","R","E","C","I","O","U","S","_","M","E","T","A","L","S">>,
      <<"A","R","M","S","_","D","E","A","L","E","R">>,
      <<"C","A","S","H","_","I","N","T","E","N","S","I","V","E","_","B","U","S","I","N","E","S","S">> }

\* the score additions of assess_customer_risk
BASELINE_SCORE == 20
COUNTRY_SCORE == 25
PEP_SCORE == 30
ADVERSE_MEDIA_SCORE == 20
OCCUPATION_SCORE == 15
NO_VERIFIED_DOCS_SCORE == 25
FEW_VERIFIED_DOCS_SCORE == 10
ENOUGH_VERIFIED_DOCS == 2
NO_SOURCE_OF_FUNDS_SCORE == 15
CUSTOMER_TYPE_SCORE == 10
MAX_STORED_SCORE == 100

\* the thresholds of _calculate_risk_level
PROHIBITED_SCORE == 80
HIGH_SCORE == 60
MEDIUM_SCORE == 35

\* review_periods, in days
REVIEW_DAYS_LOW == 365
REVIEW_DAYS_MEDIUM == 180
REVIEW_DAYS_HIGH == 90
REVIEW_DAYS_PROHIBITED == 30

\* _calculate_risk_level with > in place of >=
_calculate_risk_level_exclusive(risk_score) ==
    IF risk_score > PROHIBITED_SCORE THEN "prohibited"
    ELSE IF risk_score > HIGH_SCORE THEN "high"
    ELSE IF risk_score > MEDIUM_SCORE THEN "medium"
    ELSE "low"

_calculate_risk_level(risk_score) ==
    IF risk_score >= PROHIBITED_SCORE THEN "prohibited"
    ELSE IF risk_score >= HIGH_SCORE THEN "high"
    ELSE IF risk_score >= MEDIUM_SCORE THEN "medium"
    ELSE "low"

\* sum(1 for doc in customer.documents if doc.verified)
verified_docs(customer) ==
    Len(SelectSeq(customer.documents, LAMBDA verified : verified))

\* a str or None that is truthy: not None and not empty
Truthy(optional_str) == optional_str.some /\ optional_str.str # <<>>

\* lines 121, 136: the str is truthy and its upper() is in the set
upper_in(optional_str, names) ==
    Truthy(optional_str) /\ Upper(optional_str.str) \in names

\* risk_score after lines 118-157
risk_score_of(customer) ==
    BASELINE_SCORE
    + (IF upper_in(customer.residence_country, HIGH_RISK_COUNTRIES)
       THEN COUNTRY_SCORE ELSE 0)
    + (IF customer.pep_status THEN PEP_SCORE ELSE 0)
    + (IF customer.adverse_media THEN ADVERSE_MEDIA_SCORE ELSE 0)
    + (IF upper_in(customer.occupation, HIGH_RISK_OCCUPATIONS)
       THEN OCCUPATION_SCORE ELSE 0)
    + (IF verified_docs(customer) = 0 THEN NO_VERIFIED_DOCS_SCORE
       ELSE IF verified_docs(customer) < ENOUGH_VERIFIED_DOCS
       THEN FEW_VERIFIED_DOCS_SCORE ELSE 0)
    + (IF ~Truthy(customer.source_of_funds) THEN NO_SOURCE_OF_FUNDS_SCORE ELSE 0)
    + (IF customer.customer_type \in {"business", "trust"}
       THEN CUSTOMER_TYPE_SCORE ELSE 0)

\* risk_factors after lines 118-157
risk_factors_of(customer) ==
    (IF upper_in(customer.residence_country, HIGH_RISK_COUNTRIES)
     THEN << <<"High-risk country", customer.residence_country>> >> ELSE <<>>)
    \o (IF customer.pep_status
        THEN << <<"Politically Exposed Person (PEP)">> >> ELSE <<>>)
    \o (IF customer.adverse_media THEN << <<"Adverse media coverage">> >> ELSE <<>>)
    \o (IF upper_in(customer.occupation, HIGH_RISK_OCCUPATIONS)
        THEN << <<"High-risk occupation", customer.occupation>> >> ELSE <<>>)
    \o (IF verified_docs(customer) = 0 THEN << <<"No verified documents">> >>
        ELSE IF verified_docs(customer) < ENOUGH_VERIFIED_DOCS
        THEN << <<"Insufficient document verification">> >> ELSE <<>>)
    \o (IF ~Truthy(customer.source_of_funds)
        THEN << <<"Source of funds not declared">> >> ELSE <<>>)
    \o (IF customer.customer_type \in {"business", "trust"}
        THEN << <<"Non-individual customer type">> >> ELSE <<>>)

review_periods(risk_level) ==
    CASE risk_level = "low" -> REVIEW_DAYS_LOW
      [] risk_level = "medium" -> REVIEW_DAYS_MEDIUM
      [] risk_level = "high" -> REVIEW_DAYS_HIGH
      [] risk_level = "prohibited" -> REVIEW_DAYS_PROHIBITED

\* the RiskAssessment assess_customer_risk builds (lines 114-183)
risk_assessment(customer) ==
    LET risk_score == risk_score_of(customer)
        risk_factors == risk_factors_of(customer)
        risk_level == _calculate_risk_level(risk_score)
        dd_level == IF risk_level \in {"high", "prohibited"} THEN "EDD" ELSE "CDD"
    IN  [ customer_id |-> customer.customer_id,
          risk_level |-> risk_level,
          risk_score |-> IF risk_score <= MAX_STORED_SCORE THEN risk_score
                         ELSE MAX_STORED_SCORE,
          risk_factors |-> risk_factors,
          due_diligence_level |-> dd_level,
          next_review_days |-> review_periods(risk_level) ]

\* KYCRiskEngine.assess_customer_risk
assess_customer_risk(customer) ==
    LET assessment == risk_assessment(customer)
    IN  /\ assessments' = (customer.customer_id :> assessment) @@ assessments
        /\ last_assessed' =
              << [ customer |-> [customer EXCEPT !.risk_level = assessment.risk_level],
                   assessment |-> assessment ] >>
        /\ UNCHANGED <<transaction_history, alerts, last_call, returned, thread_vars>>

----------------------------------------------------------------------------
(* TransactionMonitor.__init__ and KYCRiskEngine.__init__; no call is in   *)
(* progress and no lock is in use.                                         *)

Init ==
    /\ transaction_history = <<>>
    /\ alerts = <<>>
    /\ last_call = [op |-> "__init__", transaction |-> NoTransaction, query |-> ""]
    /\ returned = <<>>
    /\ calls = [self \in Threads |-> IdleCall]
    /\ results = [self \in Threads |-> <<>>]
    /\ lock = {}
    /\ serialized = FALSE
    /\ assessments = <<>>
    /\ last_assessed = <<>>

----------------------------------------------------------------------------
(* The callers.  A caller numbers its transactions 1, 2, 3, ... in the     *)
(* order it submits them (the tests use tx_0, tx_1, ...).                  *)

RECURSIVE SumLen(_, _)
SumLen(history, users) ==
    IF users = {} THEN 0
    ELSE LET u == CHOOSE x \in users : TRUE
         IN  Len(history[u]) + SumLen(history, users \ {u})

\* the number of transactions recorded so far, over all accounts
RecordedCount == SumLen(transaction_history, DOMAIN transaction_history)

Transactions(users, types, amounts, timestamps, jurisdictions) ==
    { [ transaction_id |-> RecordedCount + 1, user_id |-> u, amount |-> a,
        transaction_type |-> ty, timestamp |-> ts, jurisdiction |-> j ] :
      u \in users, ty \in types, a \in amounts, ts \in timestamps,
      j \in jurisdictions }

Users == {"user_001", "user_002"}
Types == {"deposit", "withdrawal"}
Severities == {"critical", "high", "medium", "low"}

\* the number of monitor_transaction calls explored
MaxTxns == 3

(* Spec: windows, the large transaction rule and the structuring rule.     *)
CoreAmounts == {3000, 4000, 10000}
CoreTimestamps == {0, 24, 25}

Monitor ==
    /\ RecordedCount < MaxTxns
    /\ \E t \in Transactions(Users, Types, CoreAmounts, CoreTimestamps, {None}) :
          monitor_transaction(t)

Next == Monitor

Spec == Init /\ [][Next]_vars

----------------------------------------------------------------------------
(* SpecRound: the round-amount rule.                                       *)
RoundAmounts == {0, 500, 1000, 1500, 5001}
RoundTimestamps == {0, 25}

MonitorRound ==
    /\ RecordedCount < MaxTxns
    /\ \E t \in Transactions(Users, {"deposit"}, RoundAmounts, RoundTimestamps, {None}) :
          monitor_transaction(t)

NextRound == MonitorRound

SpecRound == Init /\ [][NextRound]_vars

----------------------------------------------------------------------------
(* SpecJurisdiction: the jurisdiction rule.                                *)
Jurisdictions ==
    { None,
      Some(<<>>),
      Some(<<"i","r","a","n">>),
      Some(<<"I","r","a","n">>),
      Some(<<"I","R","A","N">>),
      Some(<<"I","r","a","q">>),
      Some(<<"N","o","r","t","h"," ","K","o","r","e","a">>),
      Some(<<"N","o","r","t","h","K","o","r","e","a">>),
      Some(<<"s","Y","r","I","a">>),
      Some(<<"M","y","a","n","m","a","r">>),
      Some(<<"F","r","a","n","c","e">>) }

MonitorJurisdiction ==
    /\ RecordedCount < MaxTxns
    /\ \E t \in Transactions(Users, {"transfer"}, {4000}, {0}, Jurisdictions) :
          monitor_transaction(t)

NextJurisdiction == MonitorJurisdiction

SpecJurisdiction == Init /\ [][NextJurisdiction]_vars

----------------------------------------------------------------------------
(* SpecSink: the alert sink and its two queries.                           *)
MonitorSink ==
    /\ RecordedCount < MaxTxns
    /\ \E t \in Transactions(Users, {"withdrawal"}, {4000, 15000}, {0},
                             {None, Some(<<"i","r","a","n">>)}) :
          monitor_transaction(t)

QueryUser == \E user_id \in Users : get_alerts_by_user(user_id)

QuerySeverity == \E severity \in Severities : get_alerts_by_severity(severity)

NextSink == MonitorSink \/ QueryUser \/ QuerySeverity

SpecSink == Init /\ [][NextSink]_vars

----------------------------------------------------------------------------
(* SpecVelocity: a busy account.  The caller first submits a burst of      *)
(* equal deposits for user_001, all with timestamp 0 (test_velocity_alert  *)
(* submits 60 transfers within one hour), then arbitrary transactions.     *)

BurstTransaction(k, amount) ==
    [ transaction_id |-> k, user_id |-> "user_001", amount |-> amount,
      transaction_type |-> "deposit", timestamp |-> 0, jurisdiction |-> None ]

BurstAmounts == {100, 2000}

\* the amounts the burst may continue with
NextBurstAmounts ==
    IF RecordedCount = 0 THEN BurstAmounts
    ELSE {transaction_history["user_001"][1].amount}

\* only transactions of the burst have been submitted so far
BurstOnly ==
    \A u \in DOMAIN transaction_history :
        /\ u = "user_001"
        /\ \A k \in 1..Len(transaction_history[u]) :
              transaction_history[u][k] =
                  BurstTransaction(k, transaction_history[u][1].amount)

\* the number of calls explored beyond MAX_TRANSACTIONS_PER_DAY recorded transactions
MaxExtraTxns == 2

VelocityAmounts == {2000, 60000}
VelocityTimestamps == {0, 25}

SubmitBurst ==
    /\ RecordedCount < MAX_TRANSACTIONS_PER_DAY
    /\ BurstOnly
    /\ \E amount \in NextBurstAmounts :
          monitor_transaction(BurstTransaction(RecordedCount + 1, amount))

MonitorVelocity ==
    /\ RecordedCount >= MAX_TRANSACTIONS_PER_DAY - 1
    /\ RecordedCount < MAX_TRANSACTIONS_PER_DAY + MaxExtraTxns
    /\ \E t \in Transactions(Users, {"deposit"}, VelocityAmounts, VelocityTimestamps,
                             {None, Some(<<"i","r","a","n">>)}) :
          monitor_transaction(t)

NextVelocity == SubmitBurst \/ MonitorVelocity

SpecVelocity == Init /\ [][NextVelocity]_vars

----------------------------------------------------------------------------
(* SpecBackfill: transactions submitted out of timestamp order.  The       *)
(* caller submits a deposit of user_001 stamped hour 24 and then a backlog *)
(* of equal deposits stamped hour 0, then arbitrary transactions.          *)

BackfillTransaction(k, amount) ==
    [ transaction_id |-> k, user_id |-> "user_001", amount |-> amount,
      transaction_type |-> "deposit", timestamp |-> IF k = 1 THEN 24 ELSE 0,
      jurisdiction |-> None ]

BackfillAmounts == {2000, 60000}

\* the amounts the backlog may continue with
NextBackfillAmounts ==
    IF RecordedCount = 0 THEN BackfillAmounts
    ELSE {transaction_history["user_001"][1].amount}

\* only the first deposit and transactions of the backlog have been submitted so far
BackfillOnly ==
    \A u \in DOMAIN transaction_history :
        /\ u = "user_001"
        /\ \A k \in 1..Len(transaction_history[u]) :
              transaction_history[u][k] =
                  BackfillTransaction(k, transaction_history[u][1].amount)

BackfillTimestamps == {0, 24}

SubmitBackfill ==
    /\ RecordedCount < MAX_TRANSACTIONS_PER_DAY
    /\ BackfillOnly
    /\ \E amount \in NextBackfillAmounts :
          monitor_transaction(BackfillTransaction(RecordedCount + 1, amount))

MonitorBackfill ==
    /\ RecordedCount >= MAX_TRANSACTIONS_PER_DAY - 1
    /\ RecordedCount < MAX_TRANSACTIONS_PER_DAY + MaxExtraTxns
    /\ \E t \in Transactions(Users, {"deposit"}, VelocityAmounts, BackfillTimestamps,
                             {None}) :
          monitor_transaction(t)

NextBackfill == SubmitBackfill \/ MonitorBackfill

SpecBackfill == Init /\ [][NextBackfill]_vars

----------------------------------------------------------------------------
(* SpecResubmit: a caller that submits new transactions, in any timestamp  *)
(* order, and submits transactions it has already submitted once more,     *)
(* unchanged (same transaction_id, same fields).                           *)
ResubmitAmounts == {4000, 60000}
ResubmitTimestamps == {0, 25}

SubmitNew ==
    /\ RecordedCount < MaxTxns
    /\ \E t \in Transactions(Users, {"deposit"}, ResubmitAmounts, ResubmitTimestamps,
                             {None, Some(<<"i","r","a","n">>)}) :
          monitor_transaction(t)

Resubmit ==
    /\ RecordedCount < MaxTxns
    /\ \E u \in DOMAIN transaction_history :
          \E k \in 1..Len(transaction_history[u]) :
              monitor_transaction(transaction_history[u][k])

NextResubmit == SubmitNew \/ Resubmit

SpecResubmit == Init /\ [][NextResubmit]_vars

----------------------------------------------------------------------------
(* SpecThreads: two threads call monitor_transaction on one engine, each   *)
(* call after call, for any accounts; the deployment either serializes the *)
(* calls for one account under the account's lock or does not.             *)

\* the number of calls each thread makes
MaxCallsPerThread == 2

ThreadAmounts == {60000}

\* thread 1 numbers its transactions 11, 12, ..., thread 2 numbers them 21, 22, ...
ThreadTransactions(self) ==
    { [ transaction_id |-> 10 * self + Len(results[self]) + 1, user_id |-> u,
        amount |-> a, transaction_type |-> "deposit", timestamp |-> 0,
        jurisdiction |-> None ] : u \in Users, a \in ThreadAmounts }

InitThreads ==
    /\ transaction_history = <<>>
    /\ alerts = <<>>
    /\ last_call = [op |-> "__init__", transaction |-> NoTransaction, query |-> ""]
    /\ returned = <<>>
    /\ calls = [self \in Threads |-> IdleCall]
    /\ results = [self \in Threads |-> <<>>]
    /\ lock = {}
    /\ serialized \in BOOLEAN
    /\ assessments = <<>>
    /\ last_assessed = <<>>

ThreadStore(self) ==
    /\ calls[self].pc = "idle"
    /\ Len(results[self]) < MaxCallsPerThread
    /\ \E t \in ThreadTransactions(self) :
          /\ may_enter(t.user_id)
          /\ acquire(t.user_id)
          /\ monitor_store(self, t)
    /\ UNCHANGED <<serialized, kyc_vars>>

ThreadCheck(self) ==
    /\ calls[self].pc = "stored"
    /\ monitor_check(self)
    /\ UNCHANGED <<lock, serialized, kyc_vars>>

ThreadExtend(self) ==
    /\ calls[self].pc = "checked"
    /\ release(calls[self].transaction.user_id)
    /\ monitor_extend(self)
    /\ UNCHANGED <<serialized, kyc_vars>>

NextThreads ==
    \E self \in Threads : ThreadStore(self) \/ ThreadCheck(self) \/ ThreadExtend(self)

SpecThreads == InitThreads /\ [][NextThreads]_vars

----------------------------------------------------------------------------
(* SpecKYC: customers are assessed and re-assessed.  cust_001 comes with   *)
(* every combination of the risk factors, cust_002 with three profiles     *)
(* (those of the tests and a business).                                    *)

Customer(id, ty, country, occupation, source, documents, pep, media) ==
    [ customer_id |-> id, customer_type |-> ty, residence_country |-> country,
      occupation |-> occupation, source_of_funds |-> source, documents |-> documents,
      pep_status |-> pep, adverse_media |-> media, risk_level |-> "medium" ]

CustomerTypes == {"individual", "trust", "nonprofit"}
Countries == { Some(<<"U","S">>), Some(<<"i","r","a","n">>) }
Occupations == { Some(<<"E","n","g","i","n","e","e","r">>), Some(<<"c","a","s","i","n","o">>) }
SourcesOfFunds == { None, Some(<<"E","m","p","l","o","y","m","e","n","t">>) }
DocumentLists == { <<>>, <<FALSE, TRUE>>, <<TRUE, TRUE>> }

Customers ==
    { Customer("cust_001", ty, country, occupation, source, documents, pep, media) :
        ty \in CustomerTypes, country \in Countries, occupation \in Occupations,
        source \in SourcesOfFunds, documents \in DocumentLists,
        pep \in BOOLEAN, media \in BOOLEAN }
    \cup
    { Customer("cust_002", "individual", Some(<<"U","S">>), Some(<<"E","n","g","i","n","e","e","r">>),
               Some(<<"E","m","p","l","o","y","m","e","n","t">>), <<TRUE>>, FALSE, FALSE),
      Customer("cust_002", "business", None, None, Some(<<>>), <<FALSE>>, TRUE, FALSE),
      Customer("cust_002", "individual", Some(<<"I","R","A","N">>), None, None, <<>>, TRUE, TRUE) }

Assess == \E customer \in Customers : assess_customer_risk(customer)

NextKYC == Assess

SpecKYC == Init /\ [][NextKYC]_vars

----------------------------------------------------------------------------
(* Vocabulary of the properties.  In the state after a call of             *)
(* monitor_transaction(t): t is CallTransaction, the history of t's        *)
(* account (t included, as its last element) is CallHistory, and the       *)
(* alerts the call returned are `returned`.                                *)

IsMonitorCall == last_call.op = "monitor_transaction"
CallTransaction == last_call.transaction
CallHistory ==
    IF CallTransaction.user_id \in DOMAIN transaction_history
    THEN transaction_history[CallTransaction.user_id]
    ELSE <<>>

\* the alerts of one kind among those returned
ReturnedOfType(alert_type) ==
    LET OfType(alert) == alert.alert_type = alert_type
    IN  SelectSeq(returned, OfType)

\* positions of CallHistory whose timestamp is not before t.timestamp - hours
SinceCutoff(hours) ==
    { k \in 1..Len(CallHistory) :
        CallHistory[k].timestamp + hours >= CallTransaction.timestamp }

\* positions of CallHistory whose timestamp is in [t.timestamp - hours, t.timestamp]
TrailingInterval(hours) ==
    { k \in SinceCutoff(hours) :
        CallHistory[k].timestamp <= CallTransaction.timestamp }

RECURSIVE AmountOver(_)
AmountOver(positions) ==
    IF positions = {} THEN 0
    ELSE LET k == CHOOSE x \in positions : TRUE
         IN  CallHistory[k].amount + AmountOver(positions \ {k})

\* the transaction ids at the given positions of CallHistory, in insertion order
RECURSIVE IdsAt(_)
IdsAt(positions) ==
    IF positions = {} THEN <<>>
    ELSE LET k == CHOOSE x \in positions : \A y \in positions : x <= y
         IN  <<CallHistory[k].transaction_id>> \o IdsAt(positions \ {k})

IsPrefix(s, t) == Len(s) <= Len(t) /\ SubSeq(t, 1, Len(s)) = s

----------------------------------------------------------------------------
\* C1: after monitor_transaction(t), a recorded transaction of t's account is
\* in the window the velocity rule scans iff its timestamp lies in
\* [t.timestamp - 24h, t.timestamp]; likewise, among the transactions of t's
\* type, for the window of the structuring rule.  In particular a recorded
\* transaction with a later timestamp than t is in neither window.
C1_WindowIsTrailingInterval ==
    IsMonitorCall =>
        \A k \in 1..Len(CallHistory) :
            /\ (\E j \in 1..Len(velocity_recent_txns(transaction_history, CallTransaction)) :
                    velocity_recent_txns(transaction_history, CallTransaction)[j]
                        = CallHistory[k])
                <=> k \in TrailingInterval(VELOCITY_WINDOW_HOURS)
            /\ (\E j \in 1..Len(structuring_recent_txns(transaction_history, CallTransaction)) :
                    structuring_recent_txns(transaction_history, CallTransaction)[j]
                        = CallHistory[k])
                <=> /\ k \in TrailingInterval(STRUCTURING_WINDOW_HOURS)
                    /\ CallHistory[k].transaction_type = CallTransaction.transaction_type

----------------------------------------------------------------------------
\* C2: monitor_transaction(t) returns a structuring alert iff the recorded
\* transactions of t's account and of t's type with timestamp not before
\* t.timestamp - 24h (t among them) are at least 3, sum to at least
\* STRUCTURING_THRESHOLD and are each below CTR_THRESHOLD; the alert is
\* critical, references exactly those transactions in insertion order and
\* carries their sum and their number.  (Whether a transaction later than t
\* belongs to the window is the subject of C1.)
SameTypeSinceCutoff ==
    { k \in SinceCutoff(STRUCTURING_WINDOW_HOURS) :
        CallHistory[k].transaction_type = CallTransaction.transaction_type }

StructuringCondition ==
    /\ Cardinality(SameTypeSinceCutoff) >= 3
    /\ AmountOver(SameTypeSinceCutoff) >= STRUCTURING_THRESHOLD
    /\ \A k \in SameTypeSinceCutoff : CallHistory[k].amount < CTR_THRESHOLD

----------------------------------------------------------------------------
\* C3: every transaction a round_amount alert references has an amount of at
\* least 1000 that is a multiple of 1000 or of 500; the alert is returned only
\* when at least 3 transactions of the account's window satisfy that, is
\* medium, references exactly those and counts them.
IsRoundAmount(amount) ==
    /\ amount >= 1000
    /\ (amount % 1000 = 0 \/ amount % 500 = 0)

RoundSinceCutoff ==
    { k \in SinceCutoff(ROUND_WINDOW_HOURS) : IsRoundAmount(CallHistory[k].amount) }

C3_RoundAlertReferencesRoundOnly ==
    IsMonitorCall =>
        \A i \in 1..Len(ReturnedOfType("round_amount")) :
            LET alert == ReturnedOfType("round_amount")[i]
            IN  /\ alert.severity = "medium"
                /\ Cardinality(RoundSinceCutoff) >= 3
                /\ alert.transaction_ids = IdsAt(RoundSinceCutoff)
                /\ alert.metadata =
                      { <<"transaction_count", Cardinality(RoundSinceCutoff)>> }

----------------------------------------------------------------------------
\* C4: a call returns at most one velocity alert.  When more than
\* MAX_TRANSACTIONS_PER_DAY recorded transactions of the account have a
\* timestamp not before t.timestamp - 24h, it returns exactly one, of severity
\* high, whose metadata is transaction_count = that number and nothing else,
\* also when their amounts sum to more than MAX_VOLUME_PER_DAY; when they are
\* exactly MAX_TRANSACTIONS_PER_DAY, no alert with a transaction_count is
\* returned.  The count alert is returned as well whenever the transactions
\* with timestamp in [t.timestamp - 24h, t.timestamp] alone are more than
\* MAX_TRANSACTIONS_PER_DAY.
HasKey(metadata, key) == \E item \in metadata : item[1] = key

----------------------------------------------------------------------------
\* C5: the alerts a call returns are in the order large_transaction,
\* structuring, velocity, round_amount, high_risk_jurisdiction, with at most
\* one alert of each kind.
RuleOrder ==
    << "large_transaction", "structuring", "velocity", "round_amount",
       "high_risk_jurisdiction" >>

RuleRank(alert_type) == CHOOSE r \in 1..Len(RuleOrder) : RuleOrder[r] = alert_type

C5_AlertOrder ==
    IsMonitorCall =>
        \A i, j \in 1..Len(returned) :
            i < j =>
                /\ returned[i].alert_type \in { RuleOrder[r] : r \in 1..Len(RuleOrder) }
                /\ returned[j].alert_type \in { RuleOrder[r] : r \in 1..Len(RuleOrder) }
                /\ RuleRank(returned[i].alert_type) < RuleRank(returned[j].alert_type)

\* one call returned a structuring, a velocity, a round_amount and a
\* high_risk_jurisdiction alert
C5_Witness ==
    /\ IsMonitorCall
    /\ Len(returned) = 4
    /\ Len(ReturnedOfType("structuring")) = 1
    /\ Len(ReturnedOfType("velocity")) = 1

----------------------------------------------------------------------------
\* C6: a call returns exactly one large_transaction alert when
\* t.amount >= CTR_THRESHOLD and none when t.amount < CTR_THRESHOLD, whatever
\* the history; the alert is high and references t alone.
C6_LargeTransactionAlert ==
    IsMonitorCall =>
        /\ Len(ReturnedOfType("large_transaction")) =
              (IF CallTransaction.amount >= CTR_THRESHOLD THEN 1 ELSE 0)
        /\ \A i \in 1..Len(ReturnedOfType("large_transaction")) :
              LET alert == ReturnedOfType("large_transaction")[i]
              IN  /\ alert.severity = "high"
                  /\ alert.transaction_ids = <<CallTransaction.transaction_id>>

\* an amount of exactly CTR_THRESHOLD, on an account with earlier transactions
C6_Witness ==
    /\ IsMonitorCall
    /\ CallTransaction.amount = CTR_THRESHOLD
    /\ Len(CallHistory) >= 2
    /\ Len(ReturnedOfType("large_transaction")) = 1

----------------------------------------------------------------------------
\* C7: when a recorded transaction of t's account and type with timestamp not
\* before t.timestamp - 24h (which covers the 24h before t) has an amount of
\* at least CTR_THRESHOLD, the call returns no structuring alert, whatever the
\* sum and the count; and a call with t.amount >= CTR_THRESHOLD returns its
\* large_transaction alert.
C7_NoStructuringWithLargeMember ==
    IsMonitorCall =>
        /\ (\E k \in SameTypeSinceCutoff : CallHistory[k].amount >= CTR_THRESHOLD)
              => Len(ReturnedOfType("structuring")) = 0
        /\ CallTransaction.amount >= CTR_THRESHOLD
              => Len(ReturnedOfType("large_transaction")) = 1

\* three transactions that sum to the threshold or more, an earlier one of
\* them large, the current one not
C7_Witness ==
    /\ IsMonitorCall
    /\ Cardinality(SameTypeSinceCutoff) >= 3
    /\ AmountOver(SameTypeSinceCutoff) >= STRUCTURING_THRESHOLD
    /\ CallTransaction.amount < CTR_THRESHOLD
    /\ \E k \in SameTypeSinceCutoff : CallHistory[k].amount >= CTR_THRESHOLD
    /\ Len(ReturnedOfType("structuring")) = 0

----------------------------------------------------------------------------
\* C8: a call returns a high_risk_jurisdiction alert iff t.jurisdiction is
\* present and equals, letter case aside, one of Iran, North Korea, Syria,
\* Myanmar; the alert is critical, references t alone and carries
\* t.jurisdiction as submitted; the history plays no part.
HighRiskNames ==
    { <<"I","r","a","n">>,
      <<"N","o","r","t","h"," ","K","o","r","e","a">>,
      <<"S","y","r","i","a">>,
      <<"M","y","a","n","m","a","r">> }

SameLetter(c, d) ==
    \/ c = d
    \/ \E i \in 1..Len(LowerCase) : {c, d} = {LowerCase[i], UpperCase[i]}

EqualIgnoringCase(a, b) ==
    /\ Len(a) = Len(b)
    /\ \A i \in 1..Len(a) : SameLetter(a[i], b[i])

IsHighRisk(jurisdiction) ==
    /\ jurisdiction.some
    /\ \E name \in HighRiskNames : EqualIgnoringCase(jurisdiction.str, name)

C8_JurisdictionAlert ==
    IsMonitorCall =>
        /\ Len(ReturnedOfType("high_risk_jurisdiction")) =
              (IF IsHighRisk(CallTransaction.jurisdiction) THEN 1 ELSE 0)
        /\ \A i \in 1..Len(ReturnedOfType("high_risk_jurisdiction")) :
              LET alert == ReturnedOfType("high_risk_jurisdiction")[i]
              IN  /\ alert.severity = "critical"
                  /\ alert.transaction_ids = <<CallTransaction.transaction_id>>
                  /\ alert.metadata = { <<"jurisdiction", CallTransaction.jurisdiction>> }

\* a jurisdiction in lower case, on an account with earlier transactions
C8_Witness ==
    /\ IsMonitorCall
    /\ CallTransaction.jurisdiction = Some(<<"i","r","a","n">>)
    /\ Len(CallHistory) >= 2
    /\ Len(ReturnedOfType("high_risk_jurisdiction")) = 1

----------------------------------------------------------------------------
\* C9: every alert in the sink references at least one transaction; each id
\* it references is the id of a transaction in the history of the alert's
\* user_id and of no transaction of another account; and the alerts a call
\* returns reference only transactions recorded by the end of that call.
IdsOf(txns) == { txns[k].transaction_id : k \in 1..Len(txns) }

C9_AlertsReferenceOwnHistory ==
    /\ \A i \in 1..Len(alerts) :
          /\ alerts[i].transaction_ids # <<>>
          /\ alerts[i].user_id \in DOMAIN transaction_history
    /\ \A u \in DOMAIN transaction_history :
          LET recorded == IdsOf(transaction_history[u])
          IN  \A i \in 1..Len(alerts) :
                  LET referenced == { alerts[i].transaction_ids[j] :
                                        j \in 1..Len(alerts[i].transaction_ids) }
                  IN  IF alerts[i].user_id = u
                      THEN referenced \subseteq recorded
                      ELSE referenced \cap recorded = {}
    /\ IsMonitorCall =>
          \A i \in 1..Len(returned) :
              /\ returned[i].transaction_ids # <<>>
              /\ returned[i].user_id = CallTransaction.user_id
              /\ \A j \in 1..Len(returned[i].transaction_ids) :
                    returned[i].transaction_ids[j] \in IdsOf(CallHistory)

\* the sink holds alerts of two accounts, one of them a velocity alert for a
\* window of fewer than VELOCITY_REFERENCED transactions
C9_Witness ==
    /\ \E i, j \in 1..Len(alerts) : alerts[i].user_id # alerts[j].user_id
    /\ \E i \in 1..Len(alerts) :
          /\ alerts[i].alert_type = "velocity"
          /\ Len(alerts[i].transaction_ids) < VELOCITY_REFERENCED

----------------------------------------------------------------------------
\* C10: every step of monitor_transaction, get_alerts_by_user and
\* get_alerts_by_severity leaves the alerts already in the sink in place and
\* unchanged: the sink before the step is a prefix of the sink after it.
C10_SinkOnlyGrows == [][IsPrefix(alerts, alerts')]_vars

\* a query was answered from a sink that holds alerts of several calls
C10_Witness ==
    /\ last_call.op = "get_alerts_by_severity"
    /\ Len(alerts) >= 3
    /\ \E i, j \in 1..Len(alerts) :
          alerts[i].transaction_ids # alerts[j].transaction_ids
    /\ returned # <<>>
    /\ returned # alerts

----------------------------------------------------------------------------
(* C11: there is no de-duplication.  What monitor_transaction(t) returns   *)
(* is decided by t and the history of t's account alone: whenever the      *)
(* condition of a rule holds for t, the call returns an alert of that rule,*)
(* whatever the sink already holds, also an earlier alert of the same rule *)
(* for the same account with some of the same transaction ids.  Every call *)
(* adds exactly the alerts it returns to the sink, and a query adds none,  *)
(* so the sink has as many alerts as the calls have returned.              *)

VelocityCondition ==
    \/ Cardinality(SinceCutoff(VELOCITY_WINDOW_HOURS)) > MAX_TRANSACTIONS_PER_DAY
    \/ AmountOver(SinceCutoff(VELOCITY_WINDOW_HOURS)) > MAX_VOLUME_PER_DAY

RoundCondition ==
    /\ IsRoundAmount(CallTransaction.amount)
    /\ Cardinality({ k \in SinceCutoff(ROUND_WINDOW_HOURS) :
                       IsRoundAmount(CallHistory[k].amount) }) >= ROUND_MIN_COUNT

\* the rules whose condition holds for t and its account's history
RulesThatHold ==
    { rule \in {"large_transaction", "structuring", "velocity", "round_amount",
                "high_risk_jurisdiction"} :
        \/ rule = "large_transaction" /\ CallTransaction.amount >= CTR_THRESHOLD
        \/ rule = "structuring" /\ StructuringCondition
        \/ rule = "velocity" /\ VelocityCondition
        \/ rule = "round_amount" /\ RoundCondition
        \/ rule = "high_risk_jurisdiction" /\ IsHighRisk(CallTransaction.jurisdiction) }

\* two alerts of one rule for one account that share a transaction id
Overlapping(a, b) ==
    /\ a.alert_type = b.alert_type
    /\ a.user_id = b.user_id
    /\ \E m \in 1..Len(a.transaction_ids), n \in 1..Len(b.transaction_ids) :
          a.transaction_ids[m] = b.transaction_ids[n]

C11_NoDeduplication ==
    /\ [](IsMonitorCall =>
            \A rule \in RulesThatHold : Len(ReturnedOfType(rule)) = 1)
    /\ [][ IF last_call'.op = "monitor_transaction"
           THEN Len(alerts') = Len(alerts) + Len(returned')
           ELSE Len(alerts') = Len(alerts) ]_vars

\* a call returns an alert that overlaps an alert the sink held before the call
C11_Witness ==
    /\ IsMonitorCall
    /\ \E i \in 1..(Len(alerts) - Len(returned)), j \in 1..Len(returned) :
          Overlapping(alerts[i], returned[j])

----------------------------------------------------------------------------
(* C12: the sink is the concatenation, in call order, of the sequences     *)
(* monitor_transaction has returned: it is empty at first and every call   *)
(* appends what it returns.  get_alerts_by_user(a) returns the alerts of   *)
(* the sink whose account is a, and get_alerts_by_severity(s) those whose  *)
(* severity is s: all of them, nothing else, in the order of the sink.     *)

\* the alerts at the given positions of the sink, in the order of the sink
RECURSIVE AlertsAt(_)
AlertsAt(positions) ==
    IF positions = {} THEN <<>>
    ELSE LET k == CHOOSE x \in positions : \A y \in positions : x <= y
         IN  <<alerts[k]>> \o AlertsAt(positions \ {k})

C12_SinkAndQueries ==
    /\ [](/\ last_call.op = "__init__" => alerts = <<>>
          /\ last_call.op = "get_alerts_by_user" =>
                returned = AlertsAt({ i \in 1..Len(alerts) :
                                        alerts[i].user_id = last_call.query })
          /\ last_call.op = "get_alerts_by_severity" =>
                returned = AlertsAt({ i \in 1..Len(alerts) :
                                        alerts[i].severity = last_call.query }))
    /\ [][ last_call'.op = "monitor_transaction" => alerts' = alerts \o returned' ]_vars

\* a query by account returns two alerts that are not neighbours in the sink
C12_Witness ==
    /\ last_call.op = "get_alerts_by_user"
    /\ Len(returned) >= 2
    /\ \E i, j, k \in 1..Len(alerts) :
          /\ i < j /\ j < k
          /\ alerts[i] = returned[1]
          /\ alerts[j].user_id # last_call.query
          /\ alerts[k] = returned[2]
          /\ returned[1] # returned[2]

----------------------------------------------------------------------------
(* C13: get_alerts_by_user and get_alerts_by_severity only read.  A call   *)
(* of either leaves the transaction history and the sink as they were, and *)
(* a call that repeats the previous call (same query, same argument, no    *)
(* monitor_transaction in between) returns the same sequence again.        *)

IsQuery == last_call.op \in {"get_alerts_by_user", "get_alerts_by_severity"}

C13_QueriesArePure ==
    [][ IsQuery' =>
          /\ transaction_history' = transaction_history
          /\ alerts' = alerts
          /\ (last_call' = last_call => returned' = returned) ]_vars

\* a query has returned some, not all, of the alerts of a sink
C13_Witness ==
    /\ IsQuery
    /\ returned # <<>>
    /\ Len(returned) < Len(alerts)
    /\ transaction_history # <<>>

----------------------------------------------------------------------------
(* C16: every velocity alert, raised for the count or for the volume,      *)
(* references the 10 transactions of the account's 24 hour window with the *)
(* latest timestamps (all of them when the window has fewer than 10): it   *)
(* references window transactions only, min(10, window size) of them, and  *)
(* no window transaction it leaves out is later than one it references.    *)
(* This is to hold also when transactions are submitted out of timestamp   *)
(* order.                                                                  *)

\* the positions of CallHistory an alert references
ReferencedBy(alert) ==
    { k \in 1..Len(CallHistory) :
        \E m \in 1..Len(alert.transaction_ids) :
            alert.transaction_ids[m] = CallHistory[k].transaction_id }

Min(a, b) == IF a <= b THEN a ELSE b

LastPositions(positions, n) ==
    { k \in positions : Cardinality({ j \in positions : j > k }) < n }

----------------------------------------------------------------------------
(* C17: a call for a transaction t that fails the pre-condition of the     *)
(* round-amount rule (amount < 1000, or amount divisible by neither 1000   *)
(* nor 500) returns no round_amount alert, however many round transactions *)
(* the window holds.  Transactions that are not round, recorded between    *)
(* round ones, do not count toward the 3 the rule requires (an alert       *)
(* implies 3 round transactions in the window, and its transaction_count   *)
(* is their number), do not prevent the alert (t round and 3 round         *)
(* transactions in the window imply it), and are not referenced by it.     *)

C17_RoundPreconditionAndOthers ==
    IsMonitorCall =>
        LET round == ReturnedOfType("round_amount")
        IN  /\ ~IsRoundAmount(CallTransaction.amount) => round = <<>>
            /\ (IsRoundAmount(CallTransaction.amount)
                /\ Cardinality(RoundSinceCutoff) >= 3) => Len(round) = 1
            /\ \A i \in 1..Len(round) :
                  /\ Cardinality(RoundSinceCutoff) >= 3
                  /\ round[i].metadata =
                        { <<"transaction_count", Cardinality(RoundSinceCutoff)>> }
                  /\ \A k \in ReferencedBy(round[i]) :
                        IsRoundAmount(CallHistory[k].amount)

----------------------------------------------------------------------------
(* C18: a new engine has an empty history and an empty sink.               *)
(* monitor_transaction(t) appends t as the last element of the history of  *)
(* t.user_id, creating that history on first use, and does so before the   *)
(* rules are evaluated (the alerts it returns reference t as their last    *)
(* transaction); it leaves the elements already recorded and the histories *)
(* of all other accounts as they were.  No other operation changes a       *)
(* history, so nothing is removed or reordered and each account's history  *)
(* has one element per monitor_transaction call made for the account.      *)

C18_HistoryAppendOnly ==
    /\ [](/\ last_call.op = "__init__" => transaction_history = <<>> /\ alerts = <<>>
          /\ IsMonitorCall =>
                \A i \in 1..Len(returned) :
                    returned[i].transaction_ids[Len(returned[i].transaction_ids)] =
                        CallTransaction.transaction_id)
    /\ [][ IF last_call'.op = "monitor_transaction"
           THEN LET t == last_call'.transaction
                    before == IF t.user_id \in DOMAIN transaction_history
                              THEN transaction_history[t.user_id]
                              ELSE <<>>
                IN  /\ DOMAIN transaction_history' =
                          DOMAIN transaction_history \cup {t.user_id}
                    /\ transaction_history'[t.user_id] = Append(before, t)
                    /\ \A u \in DOMAIN transaction_history \ {t.user_id} :
                          transaction_history'[u] = transaction_history[u]
           ELSE transaction_history' = transaction_history ]_vars

\* a call has appended to a history of two or more transactions while another
\* account has a history too
C18_Witness ==
    /\ IsMonitorCall
    /\ Len(CallHistory) >= 2
    /\ CallHistory[Len(CallHistory)] = CallTransaction
    /\ \E u \in DOMAIN transaction_history : u # CallTransaction.user_id
    /\ returned # <<>>

----------------------------------------------------------------------------
(* C19: when the window of t's account holds at most                       *)
(* MAX_TRANSACTIONS_PER_DAY transactions, the call returns a velocity      *)
(* alert exactly when the sum of the window's amounts is strictly greater  *)
(* than MAX_VOLUME_PER_DAY (a sum equal to it gives none); the alert has   *)
(* severity high and its metadata is total_volume, the window's sum, with  *)
(* no transaction_count.  The window is the account's recorded             *)
(* transactions with timestamp >= t.timestamp - 24h.                       *)

----------------------------------------------------------------------------
(* C14: two monitor_transaction calls for one account that are not         *)
(* serialized can interleave so that the alerts they return differ from    *)
(* the alerts of every serial order of the calls (both calls evaluate the  *)
(* rules on a history that holds both transactions).  When the calls for   *)
(* an account run under the account's lock this cannot happen: once all    *)
(* calls have returned, the histories and the alerts each call returned    *)
(* are those of some serial order of the calls.                            *)

\* no call is in progress
Quiescent == \A self \in Threads : calls[self].pc = "idle"

\* the histories and returns of the serial executions of the calls made so far that
\* continue from history h and returns res with call next[self] of each thread
RECURSIVE SerialOutcomesFrom(_, _, _)
SerialOutcomesFrom(h, res, next) ==
    LET waiting == { self \in Threads : next[self] <= Len(results[self]) }
    IN  IF waiting = {} THEN { <<h, res>> }
        ELSE UNION {
                 LET t == results[self][next[self]].transaction
                     history == record_transaction(h, t)
                     new_alerts == generated_alerts(history, t)
                 IN  SerialOutcomesFrom(
                         history,
                         [res EXCEPT ![self] =
                             Append(@, [transaction |-> t, alerts |-> new_alerts])],
                         [next EXCEPT ![self] = @ + 1])
                 : self \in waiting }

SerialOutcomes ==
    SerialOutcomesFrom(<<>>, [self \in Threads |-> <<>>], [self \in Threads |-> 1])

C14_SerializedCallsAreSerial ==
    (serialized /\ Quiescent) => <<transaction_history, results>> \in SerialOutcomes

\* without the lock: one call each for the same account, both return a velocity alert
\* for the two transactions, which no serial order of the two calls does
C14_Witness ==
    /\ ~serialized
    /\ Quiescent
    /\ Len(results[1]) = 1
    /\ Len(results[2]) = 1
    /\ results[1][1].transaction.user_id = results[2][1].transaction.user_id
    /\ \A self \in Threads :
          \E i \in 1..Len(results[self][1].alerts) :
              /\ results[self][1].alerts[i].alert_type = "velocity"
              /\ Len(results[self][1].alerts[i].transaction_ids) = 2
    /\ <<transaction_history, results>> \notin SerialOutcomes

----------------------------------------------------------------------------
(* C15: calls for distinct accounts are independent, serialized or not.    *)
(* When the threads call for disjoint sets of accounts, then however their *)
(* steps interleave, once all calls have returned every serial order of    *)
(* the calls gives the histories and the per-call returns that were        *)
(* observed, and the alerts of each account are in the sink in the order   *)
(* in which the calls for the account returned them.  In every step, a     *)
(* call for an account leaves the history of every other account as it     *)
(* was and produces alerts for its own account only.                       *)

\* the accounts a thread has called monitor_transaction for
AccountsOf(self) ==
    { results[self][k].transaction.user_id : k \in 1..Len(results[self]) }
    \cup (IF calls[self].pc = "idle" THEN {} ELSE {calls[self].transaction.user_id})

AccountsDisjoint ==
    \A a, b \in Threads : a # b => AccountsOf(a) \cap AccountsOf(b) = {}

\* the alerts for an account among those the first k calls of a thread returned
RECURSIVE ReturnedFor(_, _, _)
ReturnedFor(self, user_id, k) ==
    IF k = 0 THEN <<>>
    ELSE ReturnedFor(self, user_id, k - 1)
         \o SelectSeq(results[self][k].alerts, LAMBDA alert : alert.user_id = user_id)

C15_DistinctAccountsIndependent ==
    /\ []((AccountsDisjoint /\ Quiescent) =>
            /\ SerialOutcomes = { <<transaction_history, results>> }
            /\ \A self \in Threads : \A user_id \in AccountsOf(self) :
                  SelectSeq(alerts, LAMBDA alert : alert.user_id = user_id) =
                      ReturnedFor(self, user_id, Len(results[self])))
    /\ [][ \A self \in Threads :
             calls'[self] # calls[self] =>
                LET user_id == IF calls[self].pc = "idle"
                               THEN calls'[self].transaction.user_id
                               ELSE calls[self].transaction.user_id
                IN  /\ \A other \in DOMAIN transaction_history \ {user_id} :
                          /\ other \in DOMAIN transaction_history'
                          /\ transaction_history'[other] = transaction_history[other]
                    /\ \A i \in 1..Len(calls'[self].alerts) :
                          calls'[self].alerts[i].user_id = user_id
                    /\ IsPrefix(alerts, alerts')
                    /\ \A i \in (Len(alerts) + 1)..Len(alerts') :
                          alerts'[i].user_id = user_id ]_vars

\* without the lock, two threads have made two calls each for different accounts, each
\* got a velocity alert, and the alerts of the two accounts alternate in the sink
C15_Witness ==
    /\ ~serialized
    /\ Quiescent
    /\ AccountsDisjoint
    /\ \A self \in Threads :
          /\ Len(results[self]) = 2
          /\ \E i \in 1..Len(results[self][2].alerts) :
                results[self][2].alerts[i].alert_type = "velocity"
    /\ \E i \in 1..(Len(alerts) - 2) :
          /\ alerts[i].user_id # alerts[i + 1].user_id
          /\ alerts[i + 1].user_id # alerts[i + 2].user_id

----------------------------------------------------------------------------
(* C20: assess_customer_risk assigns the level from the score, the         *)
(* baseline 20 plus the weights of the risk factors it reports: prohibited *)
(* from 80, high from 60, medium from 35, low below 35.  It requires 'EDD' *)
(* exactly when that level is high or prohibited and 'CDD' otherwise.  The *)
(* risk_score it stores is between 20 and 100 and maps to the level it     *)
(* assigned.  It stores the assessment it returns under the customer's id, *)
(* in place of an earlier one, and leaves the other assessments as they    *)
(* were.                                                                   *)

\* the weight of a reported risk factor
FactorWeight(factor) ==
    CASE factor[1] = "High-risk country" -> COUNTRY_SCORE
      [] factor[1] = "Politically Exposed Person (PEP)" -> PEP_SCORE
      [] factor[1] = "Adverse media coverage" -> ADVERSE_MEDIA_SCORE
      [] factor[1] = "High-risk occupation" -> OCCUPATION_SCORE
      [] factor[1] = "No verified documents" -> NO_VERIFIED_DOCS_SCORE
      [] factor[1] = "Insufficient document verification" -> FEW_VERIFIED_DOCS_SCORE
      [] factor[1] = "Source of funds not declared" -> NO_SOURCE_OF_FUNDS_SCORE
      [] factor[1] = "Non-individual customer type" -> CUSTOMER_TYPE_SCORE

RECURSIVE ScoreOfFactors(_)
ScoreOfFactors(factors) ==
    IF factors = <<>> THEN 20
    ELSE FactorWeight(Head(factors)) + ScoreOfFactors(Tail(factors))

LevelOfScore(score) ==
    IF score >= 80 THEN "prohibited"
    ELSE IF score >= 60 THEN "high"
    ELSE IF score >= 35 THEN "medium"
    ELSE "low"

C20_RiskLevelAndDueDiligence ==
    /\ [](\A i \in 1..Len(last_assessed) :
            LET customer == last_assessed[i].customer
                assessment == last_assessed[i].assessment
                score == ScoreOfFactors(assessment.risk_factors)
            IN  /\ customer.pep_status =>
                      \E k \in 1..Len(assessment.risk_factors) :
                          assessment.risk_factors[k][1] = "Politically Exposed Person (PEP)"
                /\ assessment.risk_level = LevelOfScore(score)
                /\ assessment.due_diligence_level =
                      (IF assessment.risk_level \in {"high", "prohibited"}
                       THEN "EDD" ELSE "CDD")
                /\ assessment.risk_score >= 20
                /\ assessment.risk_score <= 100
                /\ LevelOfScore(assessment.risk_score) = assessment.risk_level
                /\ assessment.customer_id = customer.customer_id
                /\ customer.customer_id \in DOMAIN assessments
                /\ assessments[customer.customer_id] = assessment)
    /\ [][ \A i \in 1..Len(last_assessed') :
             \A customer_id \in DOMAIN assessments :
                 /\ customer_id \in DOMAIN assessments'
                 /\ customer_id # last_assessed'[i].customer.customer_id =>
                       assessments'[customer_id] = assessments[customer_id] ]_vars

\* a customer whose earlier assessment required CDD has been assessed again with a score
\* over 100, the other customer's assessment being kept
C20_Witness ==
    /\ Len(last_assessed) = 1
    /\ ScoreOfFactors(last_assessed[1].assessment.risk_factors) > 100
    /\ last_assessed[1].assessment.risk_score = 100
    /\ last_assessed[1].assessment.due_diligence_level = "EDD"
    /\ last_assessed[1].customer.customer_id = "cust_001"
    /\ "cust_002" \in DOMAIN assessments
    /\ assessments["cust_002"].due_diligence_level = "CDD"

----------------------------------------------------------------------------
\* C21: no call of monitor_transaction returns both a large_transaction alert
\* and a structuring alert.  t is the last transaction of the window its own
\* structuring check scans, so when t.amount >= CTR_THRESHOLD the window has
\* a member that is not below the threshold and the call, which returns its
\* large_transaction alert, returns no structuring alert.
C21_LargeExcludesStructuring ==
    IsMonitorCall =>
        LET recent_txns == structuring_recent_txns(transaction_history, CallTransaction)
        IN  /\ recent_txns # <<>>
            /\ recent_txns[Len(recent_txns)] = CallTransaction
            /\ Len(CallHistory) \in SameTypeSinceCutoff
            /\ CallTransaction.amount >= CTR_THRESHOLD
                  => /\ Len(ReturnedOfType("large_transaction")) = 1
                     /\ Len(ReturnedOfType("structuring")) = 0
            /\ ~ /\ Len(ReturnedOfType("large_transaction")) > 0
                 /\ Len(ReturnedOfType("structuring")) > 0

\* a large transaction whose window holds at least three transactions, every
\* other one of them below the threshold: t alone keeps the structuring rule
\* from firing
C21_Witness ==
    /\ IsMonitorCall
    /\ CallTransaction.amount >= CTR_THRESHOLD
    /\ Cardinality(SameTypeSinceCutoff) >= 3
    /\ AmountOver(SameTypeSinceCutoff) >= STRUCTURING_THRESHOLD
    /\ \A k \in SameTypeSinceCutoff \ {Len(CallHistory)} :
          CallHistory[k].amount < CTR_THRESHOLD
    /\ Len(ReturnedOfType("large_transaction")) = 1
    /\ Len(ReturnedOfType("structuring")) = 0

----------------------------------------------------------------------------
\* C22: every alert a call monitor_transaction(t) returns, of any of the five
\* kinds, has user_id = t.user_id and has t.transaction_id among its
\* transaction_ids; a velocity alert has t.transaction_id as its last
\* transaction id, whatever the timestamps of the transactions recorded
\* before t.
C22_AlertsReferenceCurrent ==
    IsMonitorCall =>
        \A i \in 1..Len(returned) :
            LET alert == returned[i]
                ids == alert.transaction_ids
            IN  /\ alert.alert_type \in
                      {"large_transaction", "structuring", "velocity",
                       "round_amount", "high_risk_jurisdiction"}
                /\ alert.user_id = CallTransaction.user_id
                /\ \E j \in 1..Len(ids) : ids[j] = CallTransaction.transaction_id
                /\ alert.alert_type = "velocity"
                      => ids[Len(ids)] = CallTransaction.transaction_id

\* a call for an account that holds an earlier transaction with a later
\* timestamp than t, and a transaction of another account is recorded too;
\* the call returns a velocity alert that references several transactions
\* and alerts of other kinds
C22_Witness ==
    /\ IsMonitorCall
    /\ \E k \in 1..(Len(CallHistory) - 1) :
          CallHistory[k].timestamp > CallTransaction.timestamp
    /\ \E u \in DOMAIN transaction_history : u # CallTransaction.user_id
    /\ \E i \in 1..Len(returned) :
          /\ returned[i].alert_type = "velocity"
          /\ Len(returned[i].transaction_ids) >= 2
    /\ Len(ReturnedOfType("high_risk_jurisdiction")) = 1
    /\ Len(returned) >= 3

----------------------------------------------------------------------------
(* C23: transactions are not de-duplicated by transaction_id.  A call      *)
(* monitor_transaction(t) appends t to its account's list also when the    *)
(* list already holds a transaction with t's id, and the structuring,      *)
(* velocity and round-amount rules count and sum the entries of the list,  *)
(* one per copy: each fires iff its condition holds over the positions of  *)
(* the window, its metadata carries the number and the sum over those      *)
(* positions, and its transaction_ids lists one id per position, so an id  *)
(* recorded several times is listed several times.                         *)

\* the positions of CallHistory that hold a transaction with the given id
Copies(transaction_id) ==
    { k \in 1..Len(CallHistory) : CallHistory[k].transaction_id = transaction_id }

RoundPositions ==
    { k \in SinceCutoff(ROUND_WINDOW_HOURS) : IsRoundAmount(CallHistory[k].amount) }

C23_CopiesCountSeparately ==
    /\ [](IsMonitorCall =>
            /\ Len(ReturnedOfType("structuring")) = (IF StructuringCondition THEN 1 ELSE 0)
            /\ \A i \in 1..Len(ReturnedOfType("structuring")) :
                  LET alert == ReturnedOfType("structuring")[i]
                  IN  /\ alert.transaction_ids = IdsAt(SameTypeSinceCutoff)
                      /\ alert.metadata =
                            { <<"total_amount", AmountOver(SameTypeSinceCutoff)>>,
                              <<"transaction_count", Cardinality(SameTypeSinceCutoff)>> }
            /\ Len(ReturnedOfType("velocity")) = (IF VelocityCondition THEN 1 ELSE 0)
            /\ \A i \in 1..Len(ReturnedOfType("velocity")) :
                  LET alert == ReturnedOfType("velocity")[i]
                      window == SinceCutoff(VELOCITY_WINDOW_HOURS)
                  IN  /\ alert.transaction_ids =
                            LastN(IdsAt(window), VELOCITY_REFERENCED)
                      /\ alert.metadata =
                            IF Cardinality(window) > MAX_TRANSACTIONS_PER_DAY
                            THEN { <<"transaction_count", Cardinality(window)>> }
                            ELSE { <<"total_volume", AmountOver(window)>> }
            /\ Len(ReturnedOfType("round_amount")) = (IF RoundCondition THEN 1 ELSE 0)
            /\ \A i \in 1..Len(ReturnedOfType("round_amount")) :
                  LET alert == ReturnedOfType("round_amount")[i]
                  IN  /\ alert.transaction_ids = IdsAt(RoundPositions)
                      /\ alert.metadata =
                            { <<"transaction_count", Cardinality(RoundPositions)>> })
    /\ [][ last_call'.op = "monitor_transaction" =>
              LET t == last_call'.transaction
              IN  /\ user_txns(transaction_history', t.user_id)
                        = Append(user_txns(transaction_history, t.user_id), t)
                  /\ \A u \in DOMAIN transaction_history' \ {t.user_id} :
                        /\ u \in DOMAIN transaction_history
                        /\ transaction_history'[u] = transaction_history[u] ]_vars

\* one transaction below CTR_THRESHOLD was submitted three times and nothing
\* else was: the third call returns a structuring alert that lists its id
\* three times and sums its amount three times
C23_Witness ==
    /\ IsMonitorCall
    /\ CallTransaction.amount < CTR_THRESHOLD
    /\ DOMAIN transaction_history = {CallTransaction.user_id}
    /\ Len(CallHistory) = 3
    /\ Copies(CallTransaction.transaction_id) = {1, 2, 3}
    /\ \A k \in 1..3 : CallHistory[k] = CallTransaction
    /\ Len(ReturnedOfType("structuring")) = 1
    /\ LET alert == ReturnedOfType("structuring")[1]
           id == CallTransaction.transaction_id
       IN  /\ alert.transaction_ids = <<id, id, id>>
           /\ alert.metadata = { <<"total_amount", 3 * CallTransaction.amount>>,
                                 <<"transaction_count", 3>> }

====
